---------------------------- MODULE Spec2Model ----------------------------
(***************************************************************************)
(* Model of bern_img_utils masks.py: the confusion-matrix scorer           *)
(* (mask_evaluation, mask_sklearn_evaluation), masks_coincidence and the   *)
(* geometric operations mask_fill_holes, mask_bounding_circle,             *)
(* mask_delete_contour_in and mask_biggest_connected_component.            *)
(*                                                                         *)
(* A numpy array is a record [dtype, h, w, px]: px maps each pixel         *)
(* <<row, col>> (0-based) to its stored value; a bool array stores 0/1.    *)
(* Python floats are modelled as exact rationals [n, d] (d > 0, lowest     *)
(* terms); the float nan is the record NaN.                                *)
(***************************************************************************)
EXTENDS Integers, Sequences, FiniteSets, TLC

VARIABLES mask, likelihood, region,
          confusion, stats, skstats, coincidence,
          filled, refilled, biggest, circle, pruned

vars == <<mask, likelihood, region, confusion, stats, skstats, coincidence,
          filled, refilled, biggest, circle, pruned>>

(***************************************************************************)
(* Bounds of the model                                                     *)
(***************************************************************************)
\* the scorer and the coincidence ratio run on every pair of masks with at
\* most this many pixels
MaxScorePixels == 4
\* the geometric operations run on every mask with at most this many pixels
MaxGeomPixels == 9

\* the larger masks are SceneH rows high and hold a square of side BigSide or
\* BigSide - 1, solid or a frame up to MaxThick pixels wide
SceneH == 16
BigSide == 12
MaxThick == 1

\* the area above which mask_delete_contour_in considers a contour
AreaThreshold == 100

\* "no value": a result not computed yet, an argument not passed
None == [none |-> TRUE]
\* an exception raised by the call
Raise(e) == [raise |-> e]
Raised(r) == "raise" \in DOMAIN r
Returned(r) == r # None /\ ~Raised(r)

(***************************************************************************)
(* Arrays and the numpy operations the code uses                           *)
(***************************************************************************)
Pixels(h, w) == (0 .. h - 1) \X (0 .. w - 1)

Shapes(maxPixels) ==
    {s \in (1 .. maxPixels) \X (1 .. maxPixels) : s[1] * s[2] <= maxPixels}

\* the storage encodings of a mask: boolean, 0/1 bytes, 0/255 bytes
Encodings ==
    {[dtype |-> "bool", hi |-> 1], [dtype |-> "uint8", hi |-> 1],
     [dtype |-> "uint8", hi |-> 255]}

\* the mask of shape s that selects exactly the pixels of sel, stored in
\* encoding e
Encode(s, sel, e) ==
    [dtype |-> e.dtype, h |-> s[1], w |-> s[2],
     px |-> [p \in Pixels(s[1], s[2]) |-> IF p \in sel THEN e.hi ELSE 0]]

Masks(s) ==
    {Encode(s, sel, e) : sel \in SUBSET Pixels(s[1], s[2]), e \in Encodings}

\* the selected pixels of a mask (nonzero / True)
Selected(a) == {p \in DOMAIN a.px : a.px[p] # 0}

RECURSIVE BitAnd(_, _)
BitAnd(x, y) ==
    IF x = 0 \/ y = 0 THEN 0
    ELSE (x % 2) * (y % 2) + 2 * BitAnd(x \div 2, y \div 2)

\* a.astype(np.uint8): False/True become 0/1, bytes are kept
astype_uint8(a) == [a EXCEPT !.dtype = "uint8"]

\* np.bitwise_not: logical not on bool, one's complement on uint8
bitwise_not(a) ==
    [a EXCEPT !.px = [p \in DOMAIN a.px |->
                        IF a.dtype = "bool" THEN 1 - a.px[p]
                        ELSE 255 - a.px[p]]]

\* np.bitwise_and: bool & bool is bool; bool & uint8 promotes the bool
\* operand to 0/1 bytes
bitwise_and(a, b) ==
    [dtype |-> IF a.dtype = "bool" /\ b.dtype = "bool" THEN "bool" ELSE "uint8",
     h |-> a.h, w |-> a.w,
     px |-> [p \in DOMAIN a.px |-> BitAnd(a.px[p], b.px[p])]]

count_nonzero(a) == Cardinality({p \in DOMAIN a.px : a.px[p] # 0})

(***************************************************************************)
(* Floats as exact rationals                                               *)
(***************************************************************************)
Abs(x) == IF x < 0 THEN -x ELSE x

RECURSIVE Gcd(_, _)
Gcd(x, y) == IF y = 0 THEN x ELSE Gcd(y, x % y)

\* the rational n/d, d # 0
Rat(n, d) ==
    LET g == Gcd(Abs(n), Abs(d))
        s == IF d < 0 THEN -1 ELSE 1
    IN  [n |-> (s * n) \div g, d |-> (s * d) \div g]

Zero == Rat(0, 1)
RAdd(x, y) == Rat(x.n * y.d + y.n * x.d, x.d * y.d)
RMul(x, y) == Rat(x.n * y.n, x.d * y.d)
\* x / y, y # 0
RDiv(x, y) == Rat(x.n * y.d, x.d * y.n)
\* float division where 0/0 gives nan (numpy scalars)
NaN == [n |-> 0, d |-> 0]
NpDiv(x, y) == IF y.n = 0 THEN NaN ELSE RDiv(x, y)

\* the sum of f[k] over k in ks
RECURSIVE SumFn(_, _)
SumFn(f, ks) ==
    IF ks = {} THEN 0
    ELSE LET k == CHOOSE x \in ks : TRUE IN f[k] + SumFn(f, ks \ {k})

\* the sum of f[p] over the pixels p of S, row by row
SumPixels(f, S) ==
    LET rows == {p[1] : p \in S}
    IN  SumFn([r \in rows |-> SumFn(f, {p \in S : p[1] = r})], rows)

(***************************************************************************)
(* mask_evaluation                                                         *)
(***************************************************************************)
\* the local counts of mask_evaluation when it reaches its return
confusion_counts(m, l) ==
    LET lk     == astype_uint8(l)
        P      == count_nonzero(lk)
        invert == bitwise_not(lk)
        N      == count_nonzero(invert)
        fn     == count_nonzero(bitwise_and(bitwise_not(m), lk))
        tp     == count_nonzero(bitwise_and(m, lk))
        fp     == count_nonzero(bitwise_and(m, bitwise_not(lk)))
    IN  [P |-> P, N |-> N, fn |-> fn, tp |-> tp, fp |-> fp, tn |-> N - fp]

\* Cohen's kappa of two label sequences (sklearn.metrics.cohen_kappa_score):
\* 1 - sum(off-diagonal confusion) / sum(off-diagonal expected)
cohen_kappa_score(y1, y2) ==
    LET n      == Cardinality(DOMAIN y1.px)
        labels == {y1.px[p] : p \in DOMAIN y1.px} \cup {y2.px[p] : p \in DOMAIN y2.px}
        agree  == Cardinality({p \in DOMAIN y1.px : y1.px[p] = y2.px[p]})
        row(k) == Cardinality({p \in DOMAIN y1.px : y1.px[p] = k})
        col(k) == Cardinality({p \in DOMAIN y2.px : y2.px[p] = k})
        den    == n * n - SumFn([k \in labels |-> row(k) * col(k)], labels)
    IN  IF den = 0 THEN NaN
        ELSE RAdd(Rat(1, 1), Rat(-(n * (n - agree)), den))

stats_basic(c) ==
    LET FN == Rat(c.fn, c.P)
        TP == Rat(c.tp, c.P)
        FP == Rat(c.fp, c.N)
        Recall    == IF TP # Zero \/ FN # Zero THEN RDiv(TP, RAdd(TP, FN)) ELSE Zero
        Precision == IF TP # Zero \/ FP # Zero THEN RDiv(TP, RAdd(TP, FP)) ELSE Zero
    IN  [FN |-> FN, TP |-> TP, FP |-> FP, Recall |-> Recall, Precision |-> Precision]

\* the dict mask_evaluation returns, or the exception it raises
mask_evaluation(m, l) ==
    LET c == confusion_counts(m, l)
        b == stats_basic(c)
    IN  IF c.N = 0 \/ c.P = 0 THEN Raise("Incorrect likelihood")
        ELSE IF b.Precision # Zero \/ b.Recall # Zero
        THEN [k \in {"FN", "TP", "FP", "Recall", "Precision", "F1", "accuracy", "cohen_kappa"} |->
                CASE k = "F1" -> RDiv(RMul(Rat(2, 1), RMul(b.Precision, b.Recall)),
                                      RAdd(b.Precision, b.Recall))
                  [] k = "accuracy" -> Rat(c.tp + c.tn, c.P + c.N)
                  [] k = "cohen_kappa" -> cohen_kappa_score(astype_uint8(l), m)
                  [] OTHER -> b[k]]
        ELSE [k \in {"FN", "TP", "FP", "Recall", "Precision"} |-> b[k]]

(***************************************************************************)
(* mask_sklearn_evaluation                                                 *)
(***************************************************************************)
\* precision_recall_fscore_support(y_true, y_pred, average="micro"): the
\* true positives, predicted and true counts are summed over every label
\* present, so precision = recall = F = (pixels with equal labels) / (pixels)
micro_precision_recall(y_true, y_pred) ==
    LET labels   == {y_true.px[p] : p \in DOMAIN y_true.px}
                    \cup {y_pred.px[p] : p \in DOMAIN y_pred.px}
        tp(k)    == Cardinality({p \in DOMAIN y_true.px :
                                   y_true.px[p] = k /\ y_pred.px[p] = k})
        pred(k)  == Cardinality({p \in DOMAIN y_pred.px : y_pred.px[p] = k})
        true(k)  == Cardinality({p \in DOMAIN y_true.px : y_true.px[p] = k})
        tp_sum   == SumFn([k \in labels |-> tp(k)], labels)
        pred_sum == SumFn([k \in labels |-> pred(k)], labels)
        true_sum == SumFn([k \in labels |-> true(k)], labels)
        precision == Rat(tp_sum, pred_sum)
        recall    == Rat(tp_sum, true_sum)
    IN  <<precision, recall,
          IF tp_sum = 0 THEN Zero
          ELSE RDiv(RMul(Rat(2, 1), RMul(precision, recall)), RAdd(precision, recall))>>

accuracy_score(y_true, y_pred) ==
    Rat(Cardinality({p \in DOMAIN y_true.px : y_true.px[p] = y_pred.px[p]}),
        Cardinality(DOMAIN y_true.px))

mask_sklearn_evaluation(m, l) ==
    LET metrics == micro_precision_recall(l, m)
    IN  [Precision |-> metrics[1], Recall |-> metrics[2], Fbeta |-> metrics[3],
         cohen_kappa |-> cohen_kappa_score(l, m),
         accuracy |-> accuracy_score(l, m),
         F1 |-> NpDiv(RMul(Rat(2, 1), RMul(metrics[1], metrics[2])),
                      RAdd(metrics[1], metrics[2]))]

(***************************************************************************)
(* masks_coincidence                                                       *)
(***************************************************************************)
Min(x, y) == IF x <= y THEN x ELSE y
Max(x, y) == IF x >= y THEN x ELSE y

masks_coincidence_max(mask1, mask2) ==
    LET m1 == astype_uint8(mask1)
        m2 == astype_uint8(mask2)
        equals == count_nonzero(bitwise_and(m1, m2))
        max_pix == Max(count_nonzero(m1), count_nonzero(m2))
    IN  NpDiv(Rat(equals, 1), Rat(max_pix, 1))

masks_coincidence(mask1, mask2) ==
    LET m1 == astype_uint8(mask1)
        m2 == astype_uint8(mask2)
        res == bitwise_and(m1, m2)
        equals == count_nonzero(res)
        n_pix1 == count_nonzero(m1)
        n_pix2 == count_nonzero(m2)
        max_pix == Min(n_pix1, n_pix2)
    IN  NpDiv(Rat(equals, 1), Rat(max_pix, 1))

(***************************************************************************)
(* The scorer's state machine: one pair of same-shape masks, each function *)
(* called on it once                                                       *)
(***************************************************************************)
NoGeom ==
    /\ region = None /\ filled = None /\ refilled = None
    /\ biggest = None /\ circle = None /\ pruned = None

InitScore ==
    /\ \E s \in Shapes(MaxScorePixels) :
          /\ mask \in Masks(s)
          /\ likelihood \in Masks(s)
    /\ confusion = None /\ stats = None /\ skstats = None /\ coincidence = None
    /\ NoGeom

MaskEvaluation ==
    /\ stats = None
    /\ stats' = mask_evaluation(mask, likelihood)
    /\ confusion' = IF Raised(stats') THEN None
                    ELSE confusion_counts(mask, likelihood)
    /\ UNCHANGED <<mask, likelihood, region, skstats, coincidence,
                   filled, refilled, biggest, circle, pruned>>

MaskSklearnEvaluation ==
    /\ skstats = None
    /\ skstats' = mask_sklearn_evaluation(mask, likelihood)
    /\ UNCHANGED <<mask, likelihood, region, confusion, stats, coincidence,
                   filled, refilled, biggest, circle, pruned>>

MasksCoincidence ==
    /\ coincidence = None
    /\ coincidence' = masks_coincidence(mask, likelihood)
    /\ UNCHANGED <<mask, likelihood, region, confusion, stats, skstats,
                   filled, refilled, biggest, circle, pruned>>

NextScore == MaskEvaluation \/ MaskSklearnEvaluation \/ MasksCoincidence

SpecScore == InitScore /\ [][NextScore]_vars

(***************************************************************************)
(* Pixel connectivity                                                      *)
(***************************************************************************)
N4(p) == {<<p[1] - 1, p[2]>>, <<p[1] + 1, p[2]>>, <<p[1], p[2] - 1>>, <<p[1], p[2] + 1>>}
N8(p) == N4(p) \cup {<<p[1] - 1, p[2] - 1>>, <<p[1] - 1, p[2] + 1>>,
                     <<p[1] + 1, p[2] - 1>>, <<p[1] + 1, p[2] + 1>>}
Nbrs(p, conn) == IF conn = 4 THEN N4(p) ELSE N8(p)

\* the pixels of allowed reachable from seen, front being the pixels of seen
\* whose neighbours are still to visit
RECURSIVE Reach(_, _, _, _)
Reach(front, seen, allowed, conn) ==
    IF front = {} THEN seen
    ELSE LET new == (UNION {Nbrs(p, conn) : p \in front} \cap allowed) \ seen
         IN  Reach(new, seen \cup new, allowed, conn)

Component(p, S, conn) == Reach({p}, {p}, S, conn)

RECURSIVE Components(_, _)
Components(S, conn) ==
    IF S = {} THEN {}
    ELSE LET c == Component(CHOOSE p \in S : TRUE, S, conn)
         IN  {c} \cup Components(S \ c, conn)

BorderPixels(h, w) ==
    {p \in Pixels(h, w) : p[1] = 0 \/ p[1] = h - 1 \/ p[2] = 0 \/ p[2] = w - 1}

(***************************************************************************)
(* The OpenCV operations the code uses                                     *)
(***************************************************************************)
\* cv2.threshold(src, thresh, maxval, cv2.THRESH_BINARY_INV):
\* 0 where src > thresh, maxval elsewhere
threshold_binary_inv(src, thresh, maxval) ==
    [src EXCEPT !.px = [p \in DOMAIN src.px |->
                          IF src.px[p] > thresh THEN 0 ELSE maxval]]

\* cv2.floodFill(image, mask, seedPoint, newVal) with the default flags:
\* the 4-connected pixels that have the seed's value take newVal
floodFill(image, seedPoint, newVal) ==
    LET same == {p \in DOMAIN image.px : image.px[p] = image.px[seedPoint]}
        comp == Component(seedPoint, same, 4)
    IN  [image EXCEPT !.px = [p \in DOMAIN image.px |->
                                IF p \in comp THEN newVal ELSE image.px[p]]]

bitwise_or(a, b) ==
    [a EXCEPT !.px = [p \in DOMAIN a.px |->
                        a.px[p] + b.px[p] - BitAnd(a.px[p], b.px[p])]]

\* The pixels of the image that a region C of selected pixels does not
\* enclose: those outside C that reach the image border through 4-connected
\* pixels outside C (the frame around the image counts as background).
Outside(C, h, w) ==
    LET rest  == Pixels(h, w) \ C
        start == rest \cap BorderPixels(h, w)
    IN  Reach(start, start, rest, 4)

\* cv2.findContours: the borders of the 8-connected regions of nonzero
\* pixels.  A contour is the closed polygon through the centres of its border
\* pixels; it is kept as [hole, inside, region]:
\*   an outer border of a region C:  inside = region = C and all it encloses;
\*   a hole border of C around Q (a 4-connected part of what C encloses):
\*     inside = Q, region = Q and the pixels of C 4-adjacent to Q.
\* region is the set of pixel centres in or on the polygon.  Regions that
\* touch the image border are followed like any other (OpenCV 3.2 and later
\* do not clip the border).  RETR_EXTERNAL
\* keeps the outer borders of the regions no other region encloses;
\* RETR_LIST and RETR_TREE keep every border.
findContours(image, mode) ==
    LET h == image.h
        w == image.w
        comps == Components(Selected(image), 8)
        Fill(C) == Pixels(h, w) \ Outside(C, h, w)
        outer == {[hole |-> FALSE, inside |-> Fill(C), region |-> Fill(C)] : C \in comps}
        holesOf(C) ==
            {[hole |-> TRUE, inside |-> Q,
              region |-> Q \cup {p \in C : N4(p) \cap Q # {}}] :
                 Q \in Components(Fill(C) \ C, 4)}
    IN  IF mode = "RETR_EXTERNAL"
        THEN {c \in outer : \A d \in outer : c.inside \subseteq d.inside => c = d}
        ELSE outer \cup UNION {holesOf(C) : C \in comps}

\* the unit squares between four pixel centres that touch S, by top-left corner
Cells(S) == UNION {{p, <<p[1] - 1, p[2]>>, <<p[1], p[2] - 1>>, <<p[1] - 1, p[2] - 1>>} : p \in S}
Corners(q) == {q, <<q[1] + 1, q[2]>>, <<q[1], q[2] + 1>>, <<q[1] + 1, q[2] + 1>>}

\* What a cell adds to the polygon of a contour, in halves of a pixel area:
\* an outer border cuts the corner of a cell with three pixels inside and
\* encloses a cell with four; a hole border passes through the selected
\* pixels around the hole, so it encloses a cell with two or more pixels of
\* the hole and cuts the corner of a cell with one.
CellHalves(c, q) ==
    LET k == Cardinality(Corners(q) \cap c.inside)
    IN  IF c.hole THEN (IF k >= 2 THEN 2 ELSE k)
        ELSE (IF k = 4 THEN 2 ELSE IF k = 3 THEN 1 ELSE 0)

\* twice cv2.contourArea(contour)
contourArea2(c) ==
    LET cells == Cells(c.inside)
    IN  SumPixels([q \in cells |-> CellHalves(c, q)], cells)

\* 12 * M['m01'] of cv2.moments(contour), given 12 * M['m00'] = 6 * contourArea2:
\* a whole cell has its centroid at row q[1] + 1/2, a cut corner is a triangle
\* with its centroid at the mean of its three vertices
moment01_12(c) ==
    LET cells == Cells(c.inside)
        ins(q) == Corners(q) \cap c.inside
        rows(S) == SumFn([p \in S |-> p[1]], S)
        tri(q) ==
            IF c.hole
            THEN LET v == CHOOSE p \in ins(q) : TRUE
                 IN  2 * v[1] + (2 * q[1] + 1 - v[1])
            ELSE rows(ins(q))
    IN  SumPixels([q \in cells |->
                     CASE CellHalves(c, q) = 2 -> 12 * q[1] + 6
                       [] CellHalves(c, q) = 1 -> 2 * tri(q)
                       [] OTHER -> 0], cells)

\* cv2.fillPoly(img, [contour], color) and
\* cv2.drawContours(img, [contour], 0, color, -1)
fillPoly(img, c, color) ==
    [img EXCEPT !.px = [p \in DOMAIN img.px |->
                          IF p \in c.region THEN color ELSE img.px[p]]]

(***************************************************************************)
(* mask_fill_holes                                                         *)
(***************************************************************************)
\* cv2 of the version the code is written for (findContours returns three
\* values) takes no bool array
mask_fill_holes_no_or(m) ==
    IF m.dtype = "bool" THEN Raise("TypeError")
    ELSE LET im_th == threshold_binary_inv(bitwise_not(m), 1, 255)
         IN  bitwise_not(floodFill(im_th, <<0, 0>>, 255))

mask_fill_holes(m) ==
    IF m.dtype = "bool" THEN Raise("TypeError")
    ELSE LET inverted         == bitwise_not(m)
             im_th            == threshold_binary_inv(inverted, 1, 255)
             im_floodfill     == floodFill(im_th, <<0, 0>>, 255)
             im_floodfill_inv == bitwise_not(im_floodfill)
             im_out           == bitwise_or(im_th, im_floodfill_inv)
         IN  im_out

(***************************************************************************)
(* mask_bounding_circle                                                    *)
(***************************************************************************)
\* The value returned is kept as the contour the circle encloses.  The order
\* in which findContours lists the contours is the library's: contours[0] is
\* any of them.
mask_bounding_circle(m) ==
    IF m.dtype = "bool" THEN {Raise("TypeError")}
    ELSE LET th == threshold_binary_inv(m, 1, 255)
             contours == findContours(th, "RETR_LIST")
         IN  IF contours = {} THEN {Raise("IndexError")}
             ELSE {[minEnclosingCircle |-> cnt.region] : cnt \in contours}

(***************************************************************************)
(* mask_delete_contour_in                                                  *)
(***************************************************************************)
mask_delete_contour_in(m, boundary) ==
    LET m8 == astype_uint8(m)
        contours == findContours(m8, "RETR_TREE")
        drawn == {contour \in contours :
                    /\ contourArea2(contour) > 2 * AreaThreshold
                    /\ moment01_12(contour) \div (6 * contourArea2(contour)) < boundary}
        erased == UNION {contour.region : contour \in drawn}
    IN  [m8 EXCEPT !.px = [p \in DOMAIN m8.px |->
                             IF p \in erased THEN 0 ELSE m8.px[p]]]

(***************************************************************************)
(* mask_biggest_connected_component                                        *)
(***************************************************************************)
\* The possible results: max() keeps the first contour of greatest area, and
\* the order of the contours is the library's.
mask_biggest_connected_component(m) ==
    LET m8 == astype_uint8(m)
        f_m_binary == [m8 EXCEPT !.px = [p \in DOMAIN m8.px |->
                                           IF m8.px[p] # 0 THEN 255 ELSE 0]]
        contours == findContours(f_m_binary, "RETR_EXTERNAL")
        zeros == [f_m_binary EXCEPT !.px = [p \in DOMAIN f_m_binary.px |-> 0]]
    IN  IF contours = {} THEN {m}
        ELSE {fillPoly(zeros, biggest_cnt, 1) :
                biggest_cnt \in {c \in contours :
                    \A d \in contours : contourArea2(d) <= contourArea2(c)}}

(***************************************************************************)
(* mask_fill_holes on one mask, and again on what it returned              *)
(***************************************************************************)
NoScore ==
    /\ likelihood = None /\ confusion = None /\ stats = None
    /\ skstats = None /\ coincidence = None

GeomMasks == UNION {Masks(s) : s \in Shapes(MaxGeomPixels)}

InitFill ==
    /\ mask \in GeomMasks
    /\ NoScore /\ NoGeom

MaskFillHoles ==
    /\ \/ /\ filled = None
          /\ filled' = mask_fill_holes(mask)
          /\ UNCHANGED refilled
       \/ /\ Returned(filled)
          /\ refilled = None
          /\ refilled' = mask_fill_holes(filled)
          /\ UNCHANGED filled
    /\ UNCHANGED <<mask, likelihood, region, confusion, stats, skstats,
                   coincidence, biggest, circle, pruned>>

NextFill == MaskFillHoles

SpecFill == InitFill /\ [][NextFill]_vars

(***************************************************************************)
(* The contour operations: one call of one of them on one mask, which is   *)
(* any small mask or a larger mask made of a square (solid or a frame) and *)
(* a small blob                                                            *)
(***************************************************************************)
Rect(top, left, hh, ww) == (top .. top + hh - 1) \X (left .. left + ww - 1)

\* a square of the given side at rows top.., columns 0..: solid (thick = 0)
\* or a frame thick pixels wide
Square(top, side, thick) ==
    IF thick = 0 THEN Rect(top, 0, side, side)
    ELSE Rect(top, 0, side, side)
           \ Rect(top + thick, thick, side - 2 * thick, side - 2 * thick)

\* a 2 x 2 blob in the middle of the square, or to the right of it
Blob(top, where) ==
    CASE where = "inside"  -> Rect(top + 5, 5, 2, 2)
      [] where = "outside" -> Rect(top + 5, BigSide + 1, 2, 2)
      [] OTHER -> {}

SceneMasks ==
    {Encode(<<SceneH, BigSide + 3>>, Square(top, side, thick) \cup Blob(top, where), e) :
        top \in 0 .. SceneH - BigSide, side \in {BigSide - 1, BigSide},
        thick \in 0 .. MaxThick, where \in {"none", "inside", "outside"},
        e \in Encodings}

InitContour ==
    /\ mask \in GeomMasks \cup SceneMasks
    /\ NoScore /\ NoGeom

\* no contour operation has been called yet
NotCalled == biggest = None /\ circle = None /\ pruned = None

MaskBiggestConnectedComponent ==
    /\ NotCalled
    /\ biggest' \in mask_biggest_connected_component(mask)
    /\ UNCHANGED <<mask, likelihood, region, confusion, stats, skstats,
                   coincidence, filled, refilled, circle, pruned>>

MaskBoundingCircle ==
    /\ NotCalled
    /\ circle' \in mask_bounding_circle(mask)
    /\ UNCHANGED <<mask, likelihood, region, confusion, stats, skstats,
                   coincidence, filled, refilled, biggest, pruned>>

MaskDeleteContourIn ==
    /\ NotCalled
    /\ \E boundary \in {0, mask.h \div 2, mask.h} :
          /\ region' = boundary
          /\ pruned' = mask_delete_contour_in(mask, boundary)
    /\ UNCHANGED <<mask, likelihood, confusion, stats, skstats,
                   coincidence, filled, refilled, biggest, circle>>

NextContour ==
    MaskBiggestConnectedComponent \/ MaskBoundingCircle \/ MaskDeleteContourIn

SpecContour == InitContour /\ [][NextContour]_vars

(***************************************************************************)
(* What the masks of the call mean, independently of their encoding        *)
(***************************************************************************)
Card(S) == Cardinality(S)
\* selected pixels of the reference, and its unselected pixels
RefP == Card(Selected(likelihood))
RefN == Card(DOMAIN likelihood.px) - RefP
\* selected in both; selected in the candidate only; in the reference only
TrueTP == Card(Selected(mask) \cap Selected(likelihood))
TrueFP == Card(Selected(mask) \ Selected(likelihood))
TrueFN == Card(Selected(likelihood) \ Selected(mask))
BothClasses == RefP > 0 /\ RefN > 0
\* candidate and reference store a selected pixel the same way
SameEncoding ==
    /\ mask.dtype = likelihood.dtype
    /\ \A p, q \in DOMAIN mask.px :
          (mask.px[p] # 0 /\ likelihood.px[q] # 0) => mask.px[p] = likelihood.px[q]
\* the call has returned and counted the pixels of each kind as they are
CountsRight ==
    /\ confusion # None
    /\ confusion.P = RefP /\ confusion.N = RefN
    /\ confusion.tp = TrueTP /\ confusion.fp = TrueFP /\ confusion.fn = TrueFN

(***************************************************************************)
(* Claims about the scorer                                                 *)
(***************************************************************************)
\* C1: when the reference has both classes, the counts mask_evaluation
\* computes satisfy TP+FN = P and FP+TN = N, P the number of selected
\* reference pixels and N = (total pixels) - P, in every encoding.
C1_CountsPartition ==
    (confusion # None /\ BothClasses) =>
        /\ confusion.tp + confusion.fn = RefP
        /\ confusion.fp + confusion.tn = RefN

\* C2: mask_evaluation raises exactly when the reference has no selected
\* pixel or no unselected pixel, in every encoding of the reference.
C2_DegenerateReferenceRaises ==
    stats # None => (Raised(stats) <=> ~BothClasses)

\* C3: the reported Precision is TP/(TP+FP) over the pixel counts when
\* TP+FP > 0, and 0 otherwise (stated for the calls that count the pixels
\* right, so that it fails on the precision formula alone).
C3_PrecisionFromCounts ==
    (Returned(stats) /\ BothClasses /\ CountsRight) =>
        stats["Precision"] = IF TrueTP + TrueFP > 0
                             THEN Rat(TrueTP, TrueTP + TrueFP) ELSE Zero

\* C4: on a well-posed input (reference with both classes, TP+FP > 0)
\* mask_evaluation and mask_sklearn_evaluation report the same Precision,
\* Recall, F1 and accuracy (stated for masks of one encoding, and for the
\* calls that count the pixels right and report every metric).
C4_EvaluationsAgree ==
    (/\ Returned(stats) /\ skstats # None
     /\ BothClasses /\ TrueTP + TrueFP > 0
     /\ CountsRight
     /\ SameEncoding
     /\ {"F1", "accuracy"} \subseteq DOMAIN stats) =>
        /\ \A k \in {"Precision", "Recall", "F1", "accuracy"} : stats[k] = skstats[k]

\* C5 (as claimed): unless both masks are empty masks_coincidence returns
\* |A n B| / min(|A|, |B|), a value in [0,1]; the division by zero occurs
\* only when both masks are empty.
C5_CoincidenceUnlessBothEmpty ==
    coincidence # None =>
        LET A == Selected(mask)
            B == Selected(likelihood)
            m == Min(Card(A), Card(B))
        IN  /\ (A # {} \/ B # {}) =>
                /\ m > 0
                /\ coincidence = Rat(Card(A \cap B), m)
                /\ 0 <= coincidence.n /\ coincidence.n <= coincidence.d
            /\ coincidence = NaN => (A = {} /\ B = {})

\* C5 (amended): when neither mask is empty masks_coincidence returns
\* |A n B| / min(|A|, |B|), a value in [0,1], and 1 when both select the
\* same pixels; when at least one mask is empty the division is by zero
\* (0/0, nan).
C5_CoincidenceRatio ==
    coincidence # None =>
        LET A == Selected(mask)
            B == Selected(likelihood)
        IN  IF A # {} /\ B # {}
            THEN /\ coincidence = Rat(Card(A \cap B), Min(Card(A), Card(B)))
                 /\ 0 <= coincidence.n /\ coincidence.n <= coincidence.d
                 /\ A = B => coincidence = Rat(1, 1)
            ELSE coincidence = NaN

\* masks of different encodings that overlap in part: the ratio is 1/2
C5_Witness ==
    /\ coincidence = Rat(1, 2)
    /\ mask.dtype # likelihood.dtype
    /\ Card(Selected(mask)) = 2 /\ Card(Selected(likelihood)) = 3

(***************************************************************************)
(* Claims about the geometric operations                                   *)
(***************************************************************************)
\* the unselected pixels of the call's mask that reach the image border
\* through 4-connected unselected pixels
BorderBackground ==
    LET bg    == DOMAIN mask.px \ Selected(mask)
        start == bg \cap BorderPixels(mask.h, mask.w)
    IN  Reach(start, start, bg, 4)

\* C6: mask_fill_holes selects every unselected pixel that cannot reach the
\* image border through unselected pixels, leaves unselected every
\* unselected pixel that can, and keeps every selected pixel selected
\* (stated for the 0/255 masks the function's docstring asks for).
C6_FillsExactlyTheHoles ==
    (Returned(filled) /\ \A p \in DOMAIN mask.px : mask.px[p] \in {0, 255}) =>
        \A p \in DOMAIN mask.px :
            p \in Selected(filled) <=> p \notin BorderBackground

\* C7: mask_fill_holes is idempotent: applied to its own result it returns
\* that result pixel for pixel.
C7_FillHolesIdempotent ==
    refilled # None => refilled = filled

\* a mask with an enclosed hole, filled by the first call, and background
\* left around it; the second call has returned
C7_Witness ==
    /\ Returned(refilled)
    /\ \E p \in DOMAIN mask.px :
          p \notin Selected(mask) /\ p \notin BorderBackground /\ p \in Selected(filled)
    /\ Selected(filled) # DOMAIN mask.px

\* C8: mask_biggest_connected_component returns a mask with at most as many
\* selected pixels as its input, and the input itself when the input has no
\* region of selected pixels.
C8_NoMoreSelectedPixels ==
    biggest # None =>
        /\ Card(Selected(biggest)) <= Card(Selected(mask))
        /\ Selected(mask) = {} => biggest = mask

\* C9: mask_bounding_circle fails on a mask with no selected pixel, and
\* returns a circle only for a mask that has a selected pixel.
C9_EmptyMaskFails ==
    circle # None => (Selected(mask) = {} <=> Raised(circle))

\* C10: in the mask mask_delete_contour_in returns, every region of area
\* <= 100 keeps all its pixels, and a region of area > 100 is erased exactly
\* when its centroid row is below the boundary it is given (area and
\* centroid as the code measures them, on the region's outer contour).
C10_SmallRegionsSurvive ==
    pruned # None =>
        \A C \in Components(Selected(mask), 8) :
            LET outer == [hole |-> FALSE,
                          inside |-> DOMAIN mask.px \ Outside(C, mask.h, mask.w),
                          region |-> DOMAIN mask.px \ Outside(C, mask.h, mask.w)]
                area2 == contourArea2(outer)
            IN  IF area2 > 2 * AreaThreshold
                   /\ moment01_12(outer) \div (6 * area2) < region
                THEN C \cap Selected(pruned) = {}
                ELSE C \subseteq Selected(pruned)

=============================================================================
